---- MODULE Spec2Model ----
(***************************************************************************)
(* A constant-product liquidity pool (blueshift-amm): the persisted pool   *)
(* configuration record (state.rs) and the four instruction handlers       *)
(* Initialize, Deposit, Withdraw and Swap (instructions/*.rs).             *)
(*                                                                         *)
(* One pool and one caller are modelled.  Every handler is one atomic      *)
(* action: the runtime commits all effects of an invocation or none, so a  *)
(* failed cross-program call leaves the balances as they were.  The        *)
(* variable last records the latest invocation: its inputs as far as the   *)
(* code read them, the check it stopped at, the ProgramError returned, the *)
(* quantities computed, the cross-program calls issued, and the balances   *)
(* and record it started from.                                             *)
(***************************************************************************)
EXTENDS Integers, Sequences, FiniteSets, TLC

VARIABLES
    config_exists,  \* the configuration account has been created (108 bytes, owned by the program)
    config,         \* the bytes of the configuration account, read as struct Config
    vault_x,        \* balance of the pool's token account for asset X
    vault_y,        \* balance of the pool's token account for asset Y
    supply,         \* supply of each LP-issuance (mint) account
    user_x,         \* the caller's balance of asset X
    user_y,         \* the caller's balance of asset Y
    user_lp,        \* the caller's balance of each LP token
    now,            \* Clock::unix_timestamp
    last            \* the latest invocation

vars == <<config_exists, config, vault_x, vault_y, supply,
          user_x, user_y, user_lp, now, last>>

(***************************************************************************)
(* Bounds of the model.                                                    *)
(***************************************************************************)
\* largest quantity a payload field or a curve result takes
MaxAmount == 1
\* largest clock value and largest expiration
MaxTime == 1
\* the caller's starting balance of asset X and of asset Y
UserFunds == 2
\* LP supply is not minted beyond this (stands for the u64 range)
MaxSupply == 2

Amounts == 0..MaxAmount
Times == 0..MaxTime

(***************************************************************************)
(* Program constants.                                                      *)
(***************************************************************************)
Uninitialized == 0
Initialized == 1
Disabled == 2
WithdrawOnly == 3
\* fees are basis points; set_fee rejects fee >= FeeLimit
FeeLimit == 10000
ConfigLEN == 108
DepositAccountsLen == 9
WithdrawAccountsLen == 9
SwapAccountsLen == 7
InitializeAccountsLen == 5
DepositDataLen == 32
WithdrawDataLen == 32
SwapDataLen == 25
InitializeDataLenWithAuthority == 108
InitializeDataLen == 76

(***************************************************************************)
(* Little-endian byte arrays, as u64::to_le_bytes / from_le_bytes and      *)
(* u16::to_le_bytes / from_le_bytes compute them.                          *)
(***************************************************************************)
RECURSIVE to_le_bytes(_, _)
to_le_bytes(n, width) ==
    IF width = 0 THEN <<>>
    ELSE <<n % 256>> \o to_le_bytes(n \div 256, width - 1)

RECURSIVE from_le_bytes(_)
from_le_bytes(bytes) ==
    IF bytes = <<>> THEN 0
    ELSE Head(bytes) + 256 * from_le_bytes(Tail(bytes))

(***************************************************************************)
(* A Pubkey is 32 bytes, read by has_authority as four u64 chunks.         *)
(***************************************************************************)
PubkeyDefault == <<0, 0, 0, 0>>
KeyA == <<1, 0, 0, 0>>
KeyB == <<0, 0, 0, 1>>
Pubkeys == {PubkeyDefault, KeyA, KeyB}

(***************************************************************************)
(* struct Config: the 108-byte record.  A freshly allocated account is     *)
(* all zero.                                                               *)
(***************************************************************************)
ZeroConfig ==
    [state |-> 0,
     seed |-> to_le_bytes(0, 8),
     authority |-> PubkeyDefault,
     mint_x |-> PubkeyDefault,
     mint_y |-> PubkeyDefault,
     fee |-> to_le_bytes(0, 2),
     config_bump |-> <<0>>]

\* getters
seed_of(c) == from_le_bytes(c.seed)
fee_of(c) == from_le_bytes(c.fee)

Ok(c) == [res |-> "Ok", cfg |-> c]
Err(e, c) == [res |-> e, cfg |-> c]

\* Config::set_state
set_state(c, state) ==
    IF state >= WithdrawOnly
    THEN Err("InvalidAccountData", c)
    ELSE Ok([c EXCEPT !.state = state])

\* Config::set_fee
set_fee(c, fee) ==
    IF fee >= FeeLimit
    THEN Err("InvalidAccountData", c)
    ELSE Ok([c EXCEPT !.fee = to_le_bytes(fee, 2)])

\* Config::set_authority
set_authority(c, authority) ==
    IF authority = PubkeyDefault
    THEN Err("InvalidArgument", c)
    ELSE Ok([c EXCEPT !.authority = authority])

\* Config::set_mint_x
set_mint_x(c, mint_x) ==
    IF mint_x = c.mint_y
    THEN Err("InvalidArgument", c)
    ELSE Ok([c EXCEPT !.mint_x = mint_x])

\* Config::set_mint_y
set_mint_y(c, mint_y) ==
    IF mint_y = c.mint_x
    THEN Err("InvalidArgument", c)
    ELSE Ok([c EXCEPT !.mint_y = mint_y])

\* Config::set_seed
set_seed(c, seed) ==
    IF seed = 0
    THEN Err("InvalidArgument", c)
    ELSE IF from_le_bytes(c.seed) # 0
    THEN Err("AccountAlreadyInitialized", c)
    ELSE Ok([c EXCEPT !.seed = to_le_bytes(seed, 8)])

\* Config::set_config_bump
set_config_bump(c, bump) ==
    IF c.config_bump # <<0>>
    THEN Err("AccountAlreadyInitialized", c)
    ELSE Ok([c EXCEPT !.config_bump = bump])

\* the ? operator: the next setter runs only when the previous one returned Ok;
\* what the previous setters wrote stays written
Then(r, setter(_)) == IF r.res = "Ok" THEN setter(r.cfg) ELSE r

\* Config::set_inner
set_inner(c, seed, authority, mint_x, mint_y, fee, config_bump) ==
    LET s1 == set_state(c, Initialized)
        s2 == Then(s1, LAMBDA r : set_seed(r, seed))
        s3 == Then(s2, LAMBDA r : set_authority(r, authority))
        s4 == Then(s3, LAMBDA r : set_mint_x(r, mint_x))
        s5 == Then(s4, LAMBDA r : set_mint_y(r, mint_y))
        s6 == Then(s5, LAMBDA r : set_fee(r, fee))
        s7 == Then(s6, LAMBDA r : set_config_bump(r, config_bump))
    IN  s7

\* Config::has_authority: Some(authority) when any u64 chunk is non-zero
has_authority(c) ==
    IF \E i \in 1..4 : c.authority[i] # 0
    THEN <<"Some", c.authority>>
    ELSE <<"None">>

(***************************************************************************)
(* The environment of the one pool modelled.  Its configuration account    *)
(* lives at the address derived from PoolIdentity; its two assets are      *)
(* MintX and MintY.  Token accounts exist at the two reserve addresses     *)
(* derived for the SPL token program and at no other derived address.      *)
(* Two LP-issuance accounts exist: the pool's own ("pool", created by      *)
(* Initialize) and one created by somebody else ("foreign") whose mint     *)
(* authority was handed to the pool's configuration address.               *)
(***************************************************************************)
MintX == KeyA
MintY == KeyB
PoolIdentity == [seed |-> 1, mint_x |-> MintX, mint_y |-> MintY, config_bump |-> <<1>>]

TokenPrograms == {"spl", "alt"}
LpMints == {"pool", "foreign"}
ConfigAccounts == {"pool", "wallet"}

\* find_program_address(&[config.key(), token_program.key(), mint], &ATA_ID):
\* one address per seed list (the configuration address is fixed here)
find_program_address(token_program, mint) == <<token_program, mint>>

ReserveX == find_program_address("spl", MintX)
ReserveY == find_program_address("spl", MintY)
\* the addresses a caller passes in the reserve positions: the derived one, or
\* the pool's other reserve
SuppliedX(derived) == {derived, ReserveY}
SuppliedY(derived) == {derived, ReserveX}

\* a comparison that trusts the address supplied
ReserveTrusted(derived, supplied) == FALSE

\* the comparison of the re-derived reserve address with the one supplied:
\* TRUE when the invocation is rejected
ReserveMismatch(derived, supplied) == derived # supplied

\* the token account behind an address, "none" when no token account is there
AccountAt(key) ==
    IF key = ReserveX THEN "vault_x"
    ELSE IF key = ReserveY THEN "vault_y"
    ELSE "none"

MintOf(account) == IF account \in {"vault_x", "user_x"} THEN MintX ELSE MintY

\* the signer seeds the handlers build from the record reproduce the
\* configuration address exactly when they are the seeds it was created with
SignerSeeds(c) ==
    [seed |-> seed_of(c), mint_x |-> c.mint_x, mint_y |-> c.mint_y,
     config_bump |-> c.config_bump]
SignerOk(c) == SignerSeeds(c) = PoolIdentity

(***************************************************************************)
(* The token program, as far as the handlers use it.  Balances are passed  *)
(* as a record b inside a result r = [ok, b]; a call after a failed call   *)
(* is not made.                                                            *)
(***************************************************************************)
Balances ==
    [vault_x |-> vault_x, vault_y |-> vault_y, user_x |-> user_x, user_y |-> user_y,
     supply |-> supply, user_lp |-> user_lp]

Started(b) == [ok |-> TRUE, b |-> b]
Failed(r) == [ok |-> FALSE, b |-> r.b]

\* Transfer: same mint on both sides, enough funds, authority has signed
TokenTransfer(r, from, to, amount, signed) ==
    IF ~r.ok THEN r
    ELSE IF from = "none" \/ to = "none" THEN Failed(r)
    ELSE IF MintOf(from) # MintOf(to) \/ ~signed \/ r.b[from] < amount THEN Failed(r)
    ELSE [r EXCEPT !.b[from] = @ - amount, !.b[to] = @ + amount]

\* MintTo: the mint authority (the configuration address) has signed
TokenMintTo(r, mint, amount, signed) ==
    IF ~r.ok THEN r
    ELSE IF ~signed THEN Failed(r)
    ELSE [r EXCEPT !.b.supply[mint] = @ + amount, !.b.user_lp[mint] = @ + amount]

\* Burn: authorized by the owner of the LP token account, enough LP tokens
TokenBurn(r, mint, amount) ==
    IF ~r.ok THEN r
    ELSE IF r.b.user_lp[mint] < amount THEN Failed(r)
    ELSE [r EXCEPT !.b.supply[mint] = @ - amount, !.b.user_lp[mint] = @ - amount]

(***************************************************************************)
(* The curve engine (crate constant_product_curve) is called by the        *)
(* handlers and is not part of the sources.  Each call is modelled by the  *)
(* set of outcomes its interface allows: an error, or quantities of any    *)
(* size, narrowed only by what the interface states.                       *)
(***************************************************************************)
\* precision argument of the liquidity conversions
Precision == 6

CurveError == [ok |-> FALSE, x |-> 0, y |-> 0]
CurveAmounts == {[ok |-> TRUE, x |-> x, y |-> y] : x \in Amounts, y \in Amounts}

\* ConstantProduct::xy_deposit_amounts_from_l: an error when l = 0
xy_deposit_amounts_from_l(x, y, l, a, precision) ==
    IF l = 0 THEN {CurveError} ELSE {CurveError} \cup CurveAmounts

\* ConstantProduct::xy_withdraw_amounts_from_l: an error when l = 0
xy_withdraw_amounts_from_l(x, y, l, a, precision) ==
    IF l = 0 THEN {CurveError} ELSE {CurveError} \cup CurveAmounts

\* ConstantProduct::init(x, y, l, fee, None): a curve, or an error
ConstantProduct_init(x, y, l, fee) == {TRUE, FALSE}

\* ConstantProduct::swap(p, amount, min): an error, or (deposit, withdraw) with
\* withdraw not below the floor min
ConstantProduct_swap(x, y, l, fee, p, amount, min) ==
    {[ok |-> FALSE, deposit |-> 0, withdraw |-> 0]} \cup
    {[ok |-> TRUE, deposit |-> d, withdraw |-> w] :
        d \in Amounts, w \in {v \in Amounts : v >= min}}

(***************************************************************************)
(* The record of an invocation.                                            *)
(***************************************************************************)
Stages ==
    <<"accounts", "data_len", "amount", "expiration", "config_load", "state_guard",
      "vault_x", "vault_y", "deserialize", "curve", "bounds", "cpi", "done">>

\* position of a check in the order the code makes them
StageNo(at) == CHOOSE i \in 1..Len(Stages) : Stages[i] = at

\* the invocation got past check `at`
Passed(l, at) == StageNo(l.at) > StageNo(at)

Snapshot == [config_exists |-> config_exists, config |-> config, b |-> Balances]

NoOut == [x |-> 0, y |-> 0]

\* the invocation returns Err(res) at check `at`; nothing is written
Reject(op, at, res, args, out, cpis) ==
    /\ last' = [op |-> op, at |-> at, res |-> res, args |-> args, out |-> out,
                cpis |-> cpis, pre |-> Snapshot]
    /\ UNCHANGED <<config_exists, config, vault_x, vault_y, supply,
                   user_x, user_y, user_lp, now>>

\* the invocation returns Ok(()); the balances become r.b
Accept(op, args, out, cpis, r) ==
    /\ last' = [op |-> op, at |-> "done", res |-> "Ok", args |-> args, out |-> out,
                cpis |-> cpis, pre |-> Snapshot]
    /\ vault_x' = r.b.vault_x
    /\ vault_y' = r.b.vault_y
    /\ user_x' = r.b.user_x
    /\ user_y' = r.b.user_y
    /\ supply' = r.b.supply
    /\ user_lp' = r.b.user_lp
    /\ UNCHANGED <<config_exists, config, now>>

\* a cross-program call failed: the instruction returns its error and the
\* runtime discards what the earlier calls wrote
Finish(op, args, out, cpis, r) ==
    IF r.ok THEN Accept(op, args, out, cpis, r)
    ELSE Reject(op, "cpi", "CpiError", args, out, cpis)

\* Config::load: the account must be 108 bytes long and owned by the program
Config_load(account) ==
    IF account = "pool" /\ config_exists THEN "Ok" ELSE "InvalidAccountData"

(***************************************************************************)
(* The account list and the payload of an invocation as last records them: *)
(* the number of accounts n, the payload length len, the decoded fields,   *)
(* the clock the decoder read, the accounts passed in the configuration,   *)
(* balance-service and reserve positions and as the LP-issuance account,   *)
(* and the arguments Swap gave ConstantProduct::init.  A field the         *)
(* invocation stopped before is recorded as in NoData; the bounds, the     *)
(* direction and the LP-issuance account are recorded from the computation *)
(* of the quantities on.                                                   *)
(***************************************************************************)
NoData == [n |-> 0, len |-> 0,
           amount |-> 0, max_x |-> 0, max_y |-> 0, min_x |-> 0, min_y |-> 0,
           is_x |-> FALSE, min |-> 0, expiration |-> 0, clock |-> 0,
           config_account |-> "unread", token_program |-> "unread",
           vault_x_key |-> <<>>, vault_y_key |-> <<>>,
           mint_lp |-> "unread", curve |-> <<>>]

(***************************************************************************)
(* What a caller of Deposit, Withdraw and Swap puts in the payload and in  *)
(* the account list: the LP-issuance account, the amount, the expiration,  *)
(* the ceilings max_x, max_y of Deposit and the floors min_x, min_y, min   *)
(* of Withdraw and Swap.                                                   *)
(***************************************************************************)
\* every payload of the model, with the pool's own LP-issuance account
AnyCaller ==
    [mints |-> {"pool"}, amounts |-> Amounts, expirations |-> Times,
     max |-> Amounts, min |-> Amounts]

\* payloads that never expire and set no slippage bound
NoLimits ==
    [mints |-> {"pool"}, amounts |-> Amounts, expirations |-> {MaxTime},
     max |-> {MaxAmount}, min |-> {0}]

\* payloads of amount 0 or 1 with every expiration, ceilings 0 and floors 0
AnyExpiration ==
    [mints |-> {"pool"}, amounts |-> {0, 1}, expirations |-> Times,
     max |-> {0}, min |-> {0}]

\* payloads that never expire, with every ceiling and floor
AnyBounds ==
    [mints |-> {"pool"}, amounts |-> Amounts, expirations |-> {MaxTime},
     max |-> Amounts, min |-> Amounts]

(***************************************************************************)
(* Deposit                                                                 *)
(***************************************************************************)
\* the expiration check of the three decoders
ExpiredAtEqual(clock, expiration) == clock >= expiration

Expired(clock, expiration) == clock > expiration

\* a guard that lets WithdrawOnly through as well
DepositGuardLax(state) == state \notin {Initialized, WithdrawOnly}

\* state guard of Deposit
DepositStateGuard(state) == state # Initialized

\* a bootstrap test that looks at the LP supply only
IsBootstrapSupplyOnly(lp_supply, x_amount, y_amount) == lp_supply = 0

\* the pool is empty: the bootstrap deposit
IsBootstrap(lp_supply, x_amount, y_amount) ==
    lp_supply = 0 /\ x_amount = 0 /\ y_amount = 0

\* the two bounds taken in the wrong order
BootstrapSwapped(max_x, max_y) == [x |-> max_y, y |-> max_x]

\* the quantities of the bootstrap deposit
BootstrapAmounts(max_x, max_y) == [x |-> max_x, y |-> max_y]

\* a check that lets a deposit through when one bound is respected
DepositSlippageEither(x, y, max_x, max_y) == ~(x <= max_x \/ y <= max_y)

\* slippage check of Deposit: TRUE when the deposit is rejected
DepositSlippage(x, y, max_x, max_y) == ~(x <= max_x /\ y <= max_y)

DepositCpis(x, y, amount, vault_x_key, vault_y_key, mint_lp) ==
    <<[call |-> "Transfer", from |-> "user_x", to |-> AccountAt(vault_x_key),
       authority |-> "user", amount |-> x],
      [call |-> "Transfer", from |-> "user_y", to |-> AccountAt(vault_y_key),
       authority |-> "user", amount |-> y],
      [call |-> "MintTo", from |-> mint_lp, to |-> "user_lp",
       authority |-> "config", amount |-> amount]>>

\* a Deposit that mints the LP tokens before it makes the two transfers
DepositMintFirst(args, out, vault_x_key, vault_y_key) ==
    LET r1 == TokenMintTo(Started(Balances), args.mint_lp, args.amount, SignerOk(config))
        r2 == TokenTransfer(r1, "user_x", AccountAt(vault_x_key), out.x, TRUE)
        r3 == TokenTransfer(r2, "user_y", AccountAt(vault_y_key), out.y, TRUE)
        all == DepositCpis(out.x, out.y, args.amount, vault_x_key, vault_y_key, args.mint_lp)
        order == <<all[3], all[1], all[2]>>
        cpis == IF ~r1.ok THEN SubSeq(order, 1, 1)
                ELSE IF ~r2.ok THEN SubSeq(order, 1, 2) ELSE order
    IN  /\ supply[args.mint_lp] + args.amount <= MaxSupply
        /\ Finish("Deposit", args, out, cpis, r3)

\* Deposit::process from the transfers on
DepositEffects(args, out, vault_x_key, vault_y_key) ==
    LET r1 == TokenTransfer(Started(Balances), "user_x", AccountAt(vault_x_key), out.x, TRUE)
        r2 == TokenTransfer(r1, "user_y", AccountAt(vault_y_key), out.y, TRUE)
        r3 == TokenMintTo(r2, args.mint_lp, args.amount, SignerOk(config))
        all == DepositCpis(out.x, out.y, args.amount, vault_x_key, vault_y_key, args.mint_lp)
        cpis == IF ~r1.ok THEN SubSeq(all, 1, 1)
                ELSE IF ~r2.ok THEN SubSeq(all, 1, 2) ELSE all
    IN  /\ supply[args.mint_lp] + args.amount <= MaxSupply
        /\ Finish("Deposit", args, out, cpis, r3)

\* a Deposit that makes its two transfers before it compares the quantities
\* with the ceilings
DepositCheckAfterTransfers(args, out, vault_x_key, vault_y_key) ==
    IF DepositSlippage(out.x, out.y, args.max_x, args.max_y)
    THEN Reject("Deposit", "bounds", "InvalidArgument", args, out,
                SubSeq(DepositCpis(out.x, out.y, args.amount, vault_x_key, vault_y_key,
                                   args.mint_lp), 1, 2))
    ELSE DepositEffects(args, out, vault_x_key, vault_y_key)

\* Deposit::process from the slippage check on: the check, then the transfers
DepositCheck(args, out, vault_x_key, vault_y_key) ==
    IF DepositSlippage(out.x, out.y, args.max_x, args.max_y)
    THEN Reject("Deposit", "bounds", "InvalidArgument", args, out, <<>>)
    ELSE DepositEffects(args, out, vault_x_key, vault_y_key)

\* Deposit::process from the quantities on
DepositQuantities(args, vault_x_key, vault_y_key) ==
    LET x_amount == Balances[AccountAt(vault_x_key)]
        y_amount == Balances[AccountAt(vault_y_key)]
        lp_supply == supply[args.mint_lp]
        Check(out) == DepositCheck(args, out, vault_x_key, vault_y_key)
    IN  IF IsBootstrap(lp_supply, x_amount, y_amount)
        THEN Check(BootstrapAmounts(args.max_x, args.max_y))
        ELSE \E amounts \in xy_deposit_amounts_from_l(x_amount, y_amount, lp_supply,
                                                      args.amount, Precision) :
                IF ~amounts.ok
                THEN Reject("Deposit", "curve", "InvalidArgument", args, NoOut, <<>>)
                ELSE Check([x |-> amounts.x, y |-> amounts.y])

\* Deposit::process
DepositProcess(data, caller) ==
    \E account \in ConfigAccounts :
        LET loaded == [data EXCEPT !.config_account = account]
        IN  IF Config_load(account) # "Ok"
            THEN Reject("Deposit", "config_load", Config_load(account), loaded, NoOut, <<>>)
            ELSE IF DepositStateGuard(config.state)
            THEN Reject("Deposit", "state_guard", "InvalidAccountData", loaded, NoOut, <<>>)
            ELSE \E token_program \in TokenPrograms :
                 \E vault_x_key \in SuppliedX(find_program_address(token_program, config.mint_x)),
                    vault_y_key \in SuppliedY(find_program_address(token_program, config.mint_y)) :
                LET keyed == [loaded EXCEPT !.token_program = token_program,
                                            !.vault_x_key = vault_x_key,
                                            !.vault_y_key = vault_y_key]
                IN  IF ReserveMismatch(find_program_address(token_program, config.mint_x), vault_x_key)
                    THEN Reject("Deposit", "vault_x", "InvalidAccountData", keyed, NoOut, <<>>)
                    ELSE IF ReserveMismatch(find_program_address(token_program, config.mint_y),
                                            vault_y_key)
                    THEN Reject("Deposit", "vault_y", "InvalidAccountData", keyed, NoOut, <<>>)
                    ELSE IF AccountAt(vault_x_key) = "none" \/ AccountAt(vault_y_key) = "none"
                    THEN Reject("Deposit", "deserialize", "InvalidAccountData", keyed, NoOut, <<>>)
                    ELSE \E mint_lp \in caller.mints, max_x \in caller.max, max_y \in caller.max :
                        DepositQuantities([keyed EXCEPT !.mint_lp = mint_lp,
                                                        !.max_x = max_x, !.max_y = max_y],
                                          vault_x_key, vault_y_key)

\* a Deposit that decodes the payload before it destructures the accounts
DepositDataFirst(caller) ==
    \E n \in {DepositAccountsLen - 1, DepositAccountsLen}, len \in {DepositDataLen - 1, DepositDataLen} :
        LET shape == [NoData EXCEPT !.n = n, !.len = len]
        IN  IF len # DepositDataLen
            THEN Reject("Deposit", "data_len", "InvalidInstructionData", shape, NoOut, <<>>)
            ELSE \E amount \in caller.amounts, expiration \in caller.expirations :
                LET data == [shape EXCEPT !.amount = amount, !.expiration = expiration,
                                          !.clock = now]
                IN  IF amount = 0
                    THEN Reject("Deposit", "amount", "InvalidInstructionData", data, NoOut, <<>>)
                    ELSE IF Expired(now, expiration)
                    THEN Reject("Deposit", "expiration", "InvalidInstructionData", data,
                                NoOut, <<>>)
                    ELSE IF n # DepositAccountsLen
                    THEN Reject("Deposit", "accounts", "NotEnoughAccountKeys", data, NoOut, <<>>)
                    ELSE DepositProcess(data, caller)

\* Deposit::try_from((data, accounts)) followed by Deposit::process
Deposit(caller) ==
    \E n \in {DepositAccountsLen - 1, DepositAccountsLen}, len \in {DepositDataLen - 1, DepositDataLen} :
        LET shape == [NoData EXCEPT !.n = n, !.len = len]
        IN  IF n # DepositAccountsLen
            THEN Reject("Deposit", "accounts", "NotEnoughAccountKeys", shape, NoOut, <<>>)
            ELSE IF len # DepositDataLen
            THEN Reject("Deposit", "data_len", "InvalidInstructionData", shape, NoOut, <<>>)
            ELSE \E amount \in caller.amounts, expiration \in caller.expirations :
                LET data == [shape EXCEPT !.amount = amount, !.expiration = expiration,
                                          !.clock = now]
                IN  IF amount = 0
                    THEN Reject("Deposit", "amount", "InvalidInstructionData", data, NoOut, <<>>)
                    ELSE IF Expired(now, expiration)
                    THEN Reject("Deposit", "expiration", "InvalidInstructionData", data,
                                NoOut, <<>>)
                    ELSE DepositProcess(data, caller)

(***************************************************************************)
(* Withdraw                                                                *)
(***************************************************************************)
\* state guard of Withdraw
WithdrawStateGuard(state) == state = Disabled

\* a withdrawal that always asks the curve
NeverFullDrain(lp_supply, amount) == FALSE

\* the whole LP supply is withdrawn
IsFullDrain(lp_supply, amount) == lp_supply = amount

\* a check that lets a withdrawal through when one floor is respected
WithdrawSlippageEither(x, y, min_x, min_y) == ~(x >= min_x \/ y >= min_y)

\* slippage check of Withdraw: TRUE when the withdrawal is rejected
WithdrawSlippage(x, y, min_x, min_y) == ~(x >= min_x /\ y >= min_y)

WithdrawCpis(x, y, amount, vault_x_key, vault_y_key, mint_lp) ==
    <<[call |-> "Transfer", from |-> AccountAt(vault_x_key), to |-> "user_x",
       authority |-> "config", amount |-> x],
      [call |-> "Transfer", from |-> AccountAt(vault_y_key), to |-> "user_y",
       authority |-> "config", amount |-> y],
      [call |-> "Burn", from |-> "user_lp", to |-> mint_lp,
       authority |-> "user", amount |-> amount]>>

\* a Withdraw that burns the LP tokens before it makes the two transfers
WithdrawBurnFirst(args, out, vault_x_key, vault_y_key) ==
    LET r1 == TokenBurn(Started(Balances), args.mint_lp, args.amount)
        r2 == TokenTransfer(r1, AccountAt(vault_x_key), "user_x", out.x, SignerOk(config))
        r3 == TokenTransfer(r2, AccountAt(vault_y_key), "user_y", out.y, SignerOk(config))
        all == WithdrawCpis(out.x, out.y, args.amount, vault_x_key, vault_y_key, args.mint_lp)
        order == <<all[3], all[1], all[2]>>
        cpis == IF ~r1.ok THEN SubSeq(order, 1, 1)
                ELSE IF ~r2.ok THEN SubSeq(order, 1, 2) ELSE order
    IN  Finish("Withdraw", args, out, cpis, r3)

\* Withdraw::process from the transfers on
WithdrawEffects(args, out, vault_x_key, vault_y_key) ==
    LET r1 == TokenTransfer(Started(Balances), AccountAt(vault_x_key), "user_x", out.x,
                            SignerOk(config))
        r2 == TokenTransfer(r1, AccountAt(vault_y_key), "user_y", out.y, SignerOk(config))
        r3 == TokenBurn(r2, args.mint_lp, args.amount)
        all == WithdrawCpis(out.x, out.y, args.amount, vault_x_key, vault_y_key, args.mint_lp)
        cpis == IF ~r1.ok THEN SubSeq(all, 1, 1)
                ELSE IF ~r2.ok THEN SubSeq(all, 1, 2) ELSE all
    IN  Finish("Withdraw", args, out, cpis, r3)

\* Withdraw::process from the quantities on
WithdrawQuantities(args, vault_x_key, vault_y_key) ==
    LET x_amount == Balances[AccountAt(vault_x_key)]
        y_amount == Balances[AccountAt(vault_y_key)]
        lp_supply == supply[args.mint_lp]
        Check(out) ==
            IF WithdrawSlippage(out.x, out.y, args.min_x, args.min_y)
            THEN Reject("Withdraw", "bounds", "InvalidArgument", args, out, <<>>)
            ELSE WithdrawEffects(args, out, vault_x_key, vault_y_key)
    IN  IF IsFullDrain(lp_supply, args.amount)
        THEN Check([x |-> x_amount, y |-> y_amount])
        ELSE \E amounts \in xy_withdraw_amounts_from_l(x_amount, y_amount, lp_supply,
                                                       args.amount, Precision) :
                IF ~amounts.ok
                THEN Reject("Withdraw", "curve", "InvalidArgument", args, NoOut, <<>>)
                ELSE Check([x |-> amounts.x, y |-> amounts.y])

\* Withdraw::process
WithdrawProcess(data, caller) ==
    \E account \in ConfigAccounts :
        LET loaded == [data EXCEPT !.config_account = account]
        IN  IF Config_load(account) # "Ok"
            THEN Reject("Withdraw", "config_load", Config_load(account), loaded, NoOut, <<>>)
            ELSE IF WithdrawStateGuard(config.state)
            THEN Reject("Withdraw", "state_guard", "InvalidAccountData", loaded, NoOut, <<>>)
            ELSE \E token_program \in TokenPrograms :
                 \E vault_x_key \in SuppliedX(find_program_address(token_program, config.mint_x)),
                    vault_y_key \in SuppliedY(find_program_address(token_program, config.mint_y)) :
                LET keyed == [loaded EXCEPT !.token_program = token_program,
                                            !.vault_x_key = vault_x_key,
                                            !.vault_y_key = vault_y_key]
                IN  IF ReserveMismatch(find_program_address(token_program, config.mint_x), vault_x_key)
                    THEN Reject("Withdraw", "vault_x", "InvalidAccountData", keyed, NoOut, <<>>)
                    ELSE IF ReserveMismatch(find_program_address(token_program, config.mint_y),
                                            vault_y_key)
                    THEN Reject("Withdraw", "vault_y", "InvalidAccountData", keyed, NoOut, <<>>)
                    ELSE IF AccountAt(vault_x_key) = "none" \/ AccountAt(vault_y_key) = "none"
                    THEN Reject("Withdraw", "deserialize", "InvalidAccountData", keyed, NoOut, <<>>)
                    ELSE \E mint_lp \in caller.mints, min_x \in caller.min, min_y \in caller.min :
                        WithdrawQuantities([keyed EXCEPT !.mint_lp = mint_lp,
                                                         !.min_x = min_x, !.min_y = min_y],
                                           vault_x_key, vault_y_key)

\* Withdraw::try_from((data, accounts)) followed by Withdraw::process
Withdraw(caller) ==
    \E n \in {WithdrawAccountsLen - 1, WithdrawAccountsLen}, len \in {WithdrawDataLen - 1, WithdrawDataLen} :
        LET shape == [NoData EXCEPT !.n = n, !.len = len]
        IN  IF n # WithdrawAccountsLen
            THEN Reject("Withdraw", "accounts", "NotEnoughAccountKeys", shape, NoOut, <<>>)
            ELSE IF len # WithdrawDataLen
            THEN Reject("Withdraw", "data_len", "InvalidInstructionData", shape, NoOut, <<>>)
            ELSE \E amount \in caller.amounts, expiration \in caller.expirations :
                LET data == [shape EXCEPT !.amount = amount, !.expiration = expiration,
                                          !.clock = now]
                IN  IF amount = 0
                    THEN Reject("Withdraw", "amount", "InvalidInstructionData", data, NoOut, <<>>)
                    ELSE IF Expired(now, expiration)
                    THEN Reject("Withdraw", "expiration", "InvalidInstructionData", data,
                                NoOut, <<>>)
                    ELSE WithdrawProcess(data, caller)

(***************************************************************************)
(* Swap                                                                    *)
(***************************************************************************)
\* state guard of Swap
SwapStateGuard(state) == state # Initialized

\* a check that rejects only when both quantities are zero
SwapZeroCheckBoth(deposit, withdraw) == deposit = 0 /\ withdraw = 0

\* the check of the returned quantities: TRUE when the swap is rejected
SwapZeroCheck(deposit, withdraw) == deposit = 0 \/ withdraw = 0

\* the two reserves given in the wrong order
SwapCurveArgsCrossed(x_amount, y_amount, fee) == <<y_amount, x_amount, x_amount, fee>>

\* the arguments (x, y, l, fee) Swap::process gives ConstantProduct::init
SwapCurveArgs(x_amount, y_amount, fee) == <<x_amount, y_amount, x_amount, fee>>

SwapCpis(is_x, deposit, withdraw, vault_x_key, vault_y_key) ==
    IF is_x
    THEN <<[call |-> "Transfer", from |-> "user_x", to |-> AccountAt(vault_x_key),
            authority |-> "user", amount |-> deposit],
           [call |-> "Transfer", from |-> AccountAt(vault_y_key), to |-> "user_y",
            authority |-> "config", amount |-> withdraw]>>
    ELSE <<[call |-> "Transfer", from |-> "user_y", to |-> AccountAt(vault_y_key),
            authority |-> "user", amount |-> deposit],
           [call |-> "Transfer", from |-> AccountAt(vault_x_key), to |-> "user_x",
            authority |-> "config", amount |-> withdraw]>>

\* a Swap that pays the caller before it takes the caller's asset
SwapPayoutFirst(args, out, vault_x_key, vault_y_key) ==
    LET all == SwapCpis(args.is_x, out.x, out.y, vault_x_key, vault_y_key)
        r1 == TokenTransfer(Started(Balances), all[2].from, all[2].to, all[2].amount,
                            SignerOk(config))
        r2 == TokenTransfer(r1, all[1].from, all[1].to, all[1].amount, TRUE)
        order == <<all[2], all[1]>>
        cpis == IF ~r1.ok THEN SubSeq(order, 1, 1) ELSE order
    IN  Finish("Swap", args, out, cpis, r2)

\* Swap::process from the transfers on; out.x is deposit, out.y is withdraw
SwapEffects(args, out, vault_x_key, vault_y_key) ==
    LET all == SwapCpis(args.is_x, out.x, out.y, vault_x_key, vault_y_key)
        r1 == TokenTransfer(Started(Balances), all[1].from, all[1].to, all[1].amount, TRUE)
        r2 == TokenTransfer(r1, all[2].from, all[2].to, all[2].amount, SignerOk(config))
        cpis == IF ~r1.ok THEN SubSeq(all, 1, 1) ELSE all
    IN  Finish("Swap", args, out, cpis, r2)

\* Swap::process from the curve on
SwapQuantities(data, vault_x_key, vault_y_key) ==
    LET x_amount == Balances[AccountAt(vault_x_key)]
        y_amount == Balances[AccountAt(vault_y_key)]
        c == SwapCurveArgs(x_amount, y_amount, fee_of(config))
        args == [data EXCEPT !.curve = c]
    IN  \E built \in ConstantProduct_init(c[1], c[2], c[3], c[4]) :
            IF ~built
            THEN Reject("Swap", "curve", "Custom(1)", args, NoOut, <<>>)
            ELSE \E swap_result \in ConstantProduct_swap(c[1], c[2], c[3], c[4],
                                                         args.is_x, args.amount, args.min) :
                IF ~swap_result.ok
                THEN Reject("Swap", "curve", "Custom(1)", args, NoOut, <<>>)
                ELSE LET out == [x |-> swap_result.deposit, y |-> swap_result.withdraw]
                     IN  IF SwapZeroCheck(out.x, out.y)
                         THEN Reject("Swap", "bounds", "InvalidArgument", args, out, <<>>)
                         ELSE SwapEffects(args, out, vault_x_key, vault_y_key)

\* Swap::process
SwapProcess(data, caller) ==
    \E account \in ConfigAccounts :
        LET loaded == [data EXCEPT !.config_account = account]
        IN  IF Config_load(account) # "Ok"
            THEN Reject("Swap", "config_load", Config_load(account), loaded, NoOut, <<>>)
            ELSE IF SwapStateGuard(config.state)
            THEN Reject("Swap", "state_guard", "InvalidAccountData", loaded, NoOut, <<>>)
            ELSE \E token_program \in TokenPrograms :
                 \E vault_x_key \in SuppliedX(find_program_address(token_program, config.mint_x)),
                    vault_y_key \in SuppliedY(find_program_address(token_program, config.mint_y)) :
                LET keyed == [loaded EXCEPT !.token_program = token_program,
                                            !.vault_x_key = vault_x_key,
                                            !.vault_y_key = vault_y_key]
                IN  IF ReserveMismatch(find_program_address(token_program, config.mint_x), vault_x_key)
                    THEN Reject("Swap", "vault_x", "InvalidAccountData", keyed, NoOut, <<>>)
                    ELSE IF ReserveMismatch(find_program_address(token_program, config.mint_y),
                                            vault_y_key)
                    THEN Reject("Swap", "vault_y", "InvalidAccountData", keyed, NoOut, <<>>)
                    ELSE IF AccountAt(vault_x_key) = "none" \/ AccountAt(vault_y_key) = "none"
                    THEN Reject("Swap", "deserialize", "InvalidAccountData", keyed, NoOut, <<>>)
                    ELSE \E is_x \in BOOLEAN, min \in caller.min :
                        SwapQuantities([keyed EXCEPT !.is_x = is_x, !.min = min],
                                       vault_x_key, vault_y_key)

\* Swap::try_from((data, accounts)) followed by Swap::process
Swap(caller) ==
    \E n \in {SwapAccountsLen - 1, SwapAccountsLen}, len \in {SwapDataLen - 1, SwapDataLen} :
        LET shape == [NoData EXCEPT !.n = n, !.len = len]
        IN  IF n # SwapAccountsLen
            THEN Reject("Swap", "accounts", "NotEnoughAccountKeys", shape, NoOut, <<>>)
            ELSE IF len # SwapDataLen
            THEN Reject("Swap", "data_len", "InvalidInstructionData", shape, NoOut, <<>>)
            ELSE \E amount \in caller.amounts, expiration \in caller.expirations :
                LET data == [shape EXCEPT !.amount = amount, !.expiration = expiration,
                                          !.clock = now]
                IN  IF amount = 0
                    THEN Reject("Swap", "amount", "InvalidInstructionData", data, NoOut, <<>>)
                    ELSE IF Expired(now, expiration)
                    THEN Reject("Swap", "expiration", "InvalidInstructionData", data,
                                NoOut, <<>>)
                    ELSE SwapProcess(data, caller)

(***************************************************************************)
(* Initialize                                                              *)
(***************************************************************************)
\* payloads of Initialize: the seeds of the pool's address, or another seed
InitPayloads ==
    {[seed |-> s, fee |-> 30, mint_x |-> MintX, mint_y |-> MintY,
      config_bump |-> PoolIdentity.config_bump, lp_bump |-> <<1>>, authority |-> a] :
        s \in {PoolIdentity.seed, 2}, a \in {KeyA}}

\* the seeds Initialize::process signs the creation of the configuration account with
InitializeSeeds(data) ==
    [seed |-> data.seed, mint_x |-> data.mint_x, mint_y |-> data.mint_y,
     config_bump |-> data.config_bump]

\* CreateAccount of the configuration account: the address is free and is the
\* one the signer seeds derive
CreateConfigOk(data) == ~config_exists /\ InitializeSeeds(data) = PoolIdentity

\* InitializeInstructionData::try_from: the authority of a short payload is
\* read from 32 bytes past a 76-byte buffer, so it may be any value
InitializeAuthority(len, data) ==
    IF len = InitializeDataLenWithAuthority THEN {data.authority} ELSE Pubkeys

\* what last records of an Initialize: the number of accounts, the payload
\* length, the payload sent (its authority only when len is 108) and the
\* InitializeInstructionData decoded from it
NoInitData == [n |-> 0, len |-> 0, payload |-> <<>>, data |-> <<>>]

\* Initialize::try_from((data, accounts)) followed by Initialize::process
Initialize ==
    \E n \in {InitializeAccountsLen - 1, InitializeAccountsLen},
       len \in {InitializeDataLen - 1, InitializeDataLen, InitializeDataLenWithAuthority} :
        LET shape == [NoInitData EXCEPT !.n = n, !.len = len]
        IN  IF n # InitializeAccountsLen
            THEN Reject("Initialize", "accounts", "NotEnoughAccountKeys", shape, NoOut, <<>>)
            ELSE IF len \notin {InitializeDataLen, InitializeDataLenWithAuthority}
            THEN Reject("Initialize", "data_len", "InvalidInstructionData", shape,
                        NoOut, <<>>)
            ELSE \E payload \in InitPayloads :
                 \E authority \in InitializeAuthority(len, payload) :
                    LET data == [payload EXCEPT !.authority = authority]
                        args == [shape EXCEPT !.payload = payload, !.data = data]
                        cpis == <<[call |-> "CreateAccount", to |-> "config"],
                                  [call |-> "CreateAccount", to |-> "mint_lp"],
                                  [call |-> "InitializeMint2", to |-> "mint_lp"]>>
                    IN  IF ~CreateConfigOk(data)
                        THEN Reject("Initialize", "cpi", "CpiError", args, NoOut,
                                    SubSeq(cpis, 1, 1))
                        ELSE /\ last' = [op |-> "Initialize", at |-> "done", res |-> "Ok",
                                         args |-> args, out |-> NoOut, cpis |-> cpis,
                                         pre |-> Snapshot]
                             /\ config_exists' = TRUE
                             /\ config' = ZeroConfig
                             /\ UNCHANGED <<vault_x, vault_y, supply, user_x, user_y,
                                            user_lp, now>>

(***************************************************************************)
(* The setters of Config, called on the configuration account.             *)
(***************************************************************************)
\* a setter returned r: the record is what the setter left
Called(op, args, r) ==
    /\ config_exists
    /\ last' = [op |-> op, at |-> IF r.res = "Ok" THEN "done" ELSE "setter",
                res |-> r.res, args |-> args, out |-> NoOut, cpis |-> <<>>,
                pre |-> Snapshot]
    /\ config' = r.cfg
    /\ UNCHANGED <<config_exists, vault_x, vault_y, supply, user_x, user_y, user_lp, now>>

SetState(state) == Called("set_state", <<state>>, set_state(config, state))
SetFee(fee) == Called("set_fee", <<fee>>, set_fee(config, fee))
SetAuthority(authority) ==
    Called("set_authority", <<authority>>, set_authority(config, authority))
SetMintX(mint_x) == Called("set_mint_x", <<mint_x>>, set_mint_x(config, mint_x))
SetMintY(mint_y) == Called("set_mint_y", <<mint_y>>, set_mint_y(config, mint_y))
SetSeed(seed) == Called("set_seed", <<seed>>, set_seed(config, seed))
SetConfigBump(bump) == Called("set_config_bump", <<bump>>, set_config_bump(config, bump))
SetInner(a) ==
    Called("set_inner", a,
           set_inner(config, a.seed, a.authority, a.mint_x, a.mint_y, a.fee, a.config_bump))

\* the clock advances
Tick ==
    /\ now < MaxTime
    /\ now' = now + 1
    /\ UNCHANGED <<config_exists, config, vault_x, vault_y, supply, user_x, user_y,
                   user_lp, last>>

(***************************************************************************)
(* Specifications.                                                         *)
(***************************************************************************)
NoCall ==
    [op |-> "none", at |-> "done", res |-> "Ok", args |-> NoData, out |-> NoOut,
     cpis |-> <<>>,
     pre |-> [config_exists |-> FALSE, config |-> ZeroConfig,
              b |-> [vault_x |-> 0, vault_y |-> 0, user_x |-> UserFunds,
                     user_y |-> UserFunds,
                     supply |-> [m \in LpMints |-> 0],
                     user_lp |-> [m \in LpMints |-> 0]]]]

\* no configuration account yet; the reserves and both LP supplies are empty
Init ==
    /\ config_exists = FALSE
    /\ config = ZeroConfig
    /\ vault_x = 0
    /\ vault_y = 0
    /\ supply = [m \in LpMints |-> 0]
    /\ user_x = UserFunds
    /\ user_y = UserFunds
    /\ user_lp = [m \in LpMints |-> 0]
    /\ now = 0
    /\ last = NoCall

\* arguments of set_inner in the life of the pool: the values the account was
\* created with, and tuples one of the setters rejects
PoolParams ==
    {[seed |-> s, authority |-> a, mint_x |-> MintX, mint_y |-> MintY, fee |-> 30,
      config_bump |-> PoolIdentity.config_bump] :
        s \in {0, PoolIdentity.seed}, a \in {PubkeyDefault, KeyA}}

\* the life of one pool
Next ==
    \/ Initialize
    \/ \E a \in PoolParams : SetInner(a)
    \/ \E state \in 0..3 : SetState(state)
    \/ Deposit(AnyCaller)
    \/ Withdraw(AnyCaller)
    \/ Swap(AnyCaller)
    \/ Tick

Spec == Init /\ [][Next]_vars

\* values given to the setters
StateValues == 0..4
Seeds == {0, 1, 256}
Fees == {30, 10000}
Bumps == {<<0>>, <<1>>, <<2>>}
Authorities == {PubkeyDefault, KeyB}
InnerParams ==
    [seed : {0, 1}, authority : Authorities, mint_x : {KeyA}, mint_y : {KeyA, KeyB},
     fee : {30, 10000}, config_bump : {<<1>>}]

\* a freshly allocated configuration account: all zero
InitConfig ==
    /\ config_exists = TRUE
    /\ config = ZeroConfig
    /\ vault_x = 0
    /\ vault_y = 0
    /\ supply = [m \in LpMints |-> 0]
    /\ user_x = UserFunds
    /\ user_y = UserFunds
    /\ user_lp = [m \in LpMints |-> 0]
    /\ now = 0
    /\ last = NoCall

\* every sequence of setter calls on the record
NextConfig ==
    \/ \E state \in StateValues : SetState(state)
    \/ \E fee \in Fees : SetFee(fee)
    \/ \E authority \in Authorities : SetAuthority(authority)
    \/ \E mint_x \in Pubkeys : SetMintX(mint_x)
    \/ \E mint_y \in Pubkeys : SetMintY(mint_y)
    \/ \E seed \in Seeds : SetSeed(seed)
    \/ \E bump \in Bumps : SetConfigBump(bump)
    \/ \E a \in InnerParams : SetInner(a)

SpecConfig == InitConfig /\ [][NextConfig]_vars

\* the record after set_inner wrote the values the pool was created with,
\* read with the state byte `state`
PoolConfig(state) ==
    [state |-> state,
     seed |-> to_le_bytes(PoolIdentity.seed, 8),
     authority |-> KeyA,
     mint_x |-> MintX,
     mint_y |-> MintY,
     fee |-> to_le_bytes(30, 2),
     config_bump |-> PoolIdentity.config_bump]

\* a pool holding reserves (x, y) against lp LP units, all held by the caller
Funded(x, y, lp) ==
    /\ vault_x = x
    /\ vault_y = y
    /\ supply = [m \in LpMints |-> IF m = "pool" THEN lp ELSE 0]
    /\ user_x = UserFunds - x
    /\ user_y = UserFunds - y
    /\ user_lp = [m \in LpMints |-> IF m = "pool" THEN lp ELSE 0]
    /\ now = 0
    /\ last = NoCall

\* the state bytes a record is read with
StateBytes == {0, 1, 2, 3, 4, 255}

\* the state guards on every state byte: a funded pool whose record holds any
\* state byte
InitGuard ==
    /\ config_exists = TRUE
    /\ \E state \in StateBytes : config = PoolConfig(state)
    /\ Funded(1, 1, 1)

NextGuard ==
    \/ Deposit(NoLimits)
    \/ Withdraw(NoLimits)
    \/ Swap(NoLimits)

SpecGuard == InitGuard /\ [][NextGuard]_vars

\* the decoders as the clock advances, on an Initialized pool that is empty
InitExpiry ==
    /\ config_exists = TRUE
    /\ config = PoolConfig(Initialized)
    /\ Funded(0, 0, 0)

NextExpiry ==
    \/ Deposit(AnyExpiration)
    \/ Withdraw(AnyExpiration)
    \/ Swap(AnyExpiration)
    \/ Tick

SpecExpiry == InitExpiry /\ [][NextExpiry]_vars

\* deposits into an Initialized pool that starts empty
InitDeposit ==
    /\ config_exists = TRUE
    /\ config = PoolConfig(Initialized)
    /\ Funded(0, 0, 0)

NextDeposit == Deposit(AnyBounds)

SpecDeposit == InitDeposit /\ [][NextDeposit]_vars

\* withdrawals from an Initialized pool that deposits have funded
InitWithdraw ==
    /\ config_exists = TRUE
    /\ config = PoolConfig(Initialized)
    /\ \E x \in 0..UserFunds, y \in 0..UserFunds, lp \in 1..MaxSupply : Funded(x, y, lp)

NextWithdraw == Withdraw(AnyBounds)

SpecWithdraw == InitWithdraw /\ [][NextWithdraw]_vars

\* the largest reserve a sequence of swaps starts from
MaxReserve == 3

\* sequences of swaps on an Initialized pool that deposits have funded
InitSwap ==
    /\ config_exists = TRUE
    /\ config = PoolConfig(Initialized)
    /\ vault_x \in 1..MaxReserve
    /\ vault_y = MaxReserve
    /\ supply = [m \in LpMints |-> IF m = "pool" THEN 1 ELSE 0]
    /\ user_x = UserFunds
    /\ user_y = UserFunds
    /\ user_lp = [m \in LpMints |-> IF m = "pool" THEN 1 ELSE 0]
    /\ now = 0
    /\ last = NoCall

NextSwap == Swap(AnyBounds)

SpecSwap == InitSwap /\ [][NextSwap]_vars

\* deposits into an Initialized pool that has issued no LP tokens and whose
\* reserves may have received tokens directly
InitDonated ==
    /\ config_exists = TRUE
    /\ config = PoolConfig(Initialized)
    /\ vault_x \in 0..MaxAmount
    /\ vault_y \in 0..MaxAmount
    /\ supply = [m \in LpMints |-> 0]
    /\ user_lp = [m \in LpMints |-> 0]
    /\ user_x = UserFunds - vault_x
    /\ user_y = UserFunds - vault_y
    /\ now = 0
    /\ last = NoCall

NextDonated == Deposit(AnyBounds)

SpecDonated == InitDonated /\ [][NextDonated]_vars

\* payloads that never expire, with every ceiling and floor, and either
\* LP-issuance account in the mint_lp position
AnyMint ==
    [mints |-> LpMints, amounts |-> Amounts, expirations |-> {MaxTime},
     max |-> Amounts, min |-> Amounts]

\* an Initialized pool funded by others, who hold all its LP tokens; the
\* caller holds the whole supply of the other LP-issuance account
InitForeign ==
    /\ config_exists = TRUE
    /\ config = PoolConfig(Initialized)
    /\ vault_x = 1
    /\ vault_y = 1
    /\ supply = [m \in LpMints |-> 1]
    /\ user_lp = [m \in LpMints |-> IF m = "foreign" THEN 1 ELSE 0]
    /\ user_x = UserFunds - 1
    /\ user_y = UserFunds - 1
    /\ now = 0
    /\ last = NoCall

NextForeign ==
    \/ Deposit(AnyMint)
    \/ Withdraw(AnyMint)

SpecForeign == InitForeign /\ [][NextForeign]_vars

\* the three pool operations from an empty, Initialized pool, with either
\* LP-issuance account in the mint_lp position
InitEmpty ==
    /\ config_exists = TRUE
    /\ config = PoolConfig(Initialized)
    /\ Funded(0, 0, 0)

NextEmpty ==
    \/ Deposit(AnyMint)
    \/ Withdraw(AnyMint)
    \/ Swap(AnyBounds)

SpecEmpty == InitEmpty /\ [][NextEmpty]_vars

\* withdrawals by a caller who holds any part of the LP supply of a funded,
\* Initialized pool; the rest is held by others
InitBurn ==
    /\ config_exists = TRUE
    /\ config = PoolConfig(Initialized)
    /\ vault_x \in 1..UserFunds
    /\ vault_y = 1
    /\ supply = [m \in LpMints |-> IF m = "pool" THEN MaxSupply ELSE 0]
    /\ \E lp \in 0..MaxSupply :
          user_lp = [m \in LpMints |-> IF m = "pool" THEN lp ELSE 0]
    /\ user_x = UserFunds - vault_x
    /\ user_y = UserFunds - vault_y
    /\ now = 0
    /\ last = NoCall

NextBurn == Withdraw(AnyBounds)

SpecBurn == InitBurn /\ [][NextBurn]_vars

\* every payload with amounts and limits at the ends of their ranges
EveryCheck ==
    [mints |-> {"pool"}, amounts |-> {0, MaxAmount}, expirations |-> {0, MaxTime},
     max |-> {0, MaxAmount}, min |-> {0, MaxAmount}]

\* the checks of the four instructions, in the order they are made, at a time
\* when expiration 0 has passed: before the configuration account exists, and
\* on a funded pool that is Initialized or Disabled
InitChecks ==
    /\ now = MaxTime
    /\ last = NoCall
    /\ \/ /\ config_exists = FALSE
          /\ config = ZeroConfig
          /\ vault_x = 0
          /\ vault_y = 0
          /\ supply = [m \in LpMints |-> 0]
       \/ /\ config_exists = TRUE
          /\ \E state \in {Initialized, Disabled} : config = PoolConfig(state)
          /\ vault_x = 1
          /\ vault_y = 1
          /\ supply = [m \in LpMints |-> IF m = "pool" THEN 1 ELSE 0]
    /\ user_x = UserFunds - vault_x
    /\ user_y = UserFunds - vault_y
    /\ user_lp = supply

NextChecks ==
    \/ Initialize
    \/ Deposit(EveryCheck)
    \/ Withdraw(EveryCheck)
    \/ Swap(EveryCheck)

SpecChecks == InitChecks /\ [][NextChecks]_vars

(***************************************************************************)
(* Properties.                                                             *)
(***************************************************************************)
PoolOps == {"Deposit", "Withdraw", "Swap"}

\* the latest invocation wrote nothing
NothingWritten == Balances = last.pre.b /\ config = last.pre.config

\* the latest invocation was rejected before any cross-program call
RejectedBeforeEffects == last.res # "Ok" /\ last.cpis = <<>> /\ NothingWritten

\* C1: Deposit and Swap get past the state guard exactly when the state byte is
\* Initialized (1); Withdraw is stopped by its guard exactly when the state byte
\* is Disabled (2) and gets past it for every other byte, 0 and 3 included; an
\* invocation stopped by the guard moves no balance.
C1_StateGuards ==
    /\ (last.op \in {"Deposit", "Swap"} /\ Passed(last, "state_guard"))
          => last.pre.config.state = Initialized
    /\ (last.op \in {"Deposit", "Swap"} /\ last.at = "state_guard")
          => last.pre.config.state # Initialized
    /\ (last.op = "Withdraw" /\ Passed(last, "state_guard"))
          => last.pre.config.state # Disabled
    /\ (last.op = "Withdraw" /\ last.at = "state_guard")
          => last.pre.config.state = Disabled
    /\ (last.op \in PoolOps /\ last.at = "state_guard")
          => (last.res = "InvalidAccountData" /\ RejectedBeforeEffects)
    /\ (last.op \in {"Deposit", "Swap"} /\ last.pre.config.state = WithdrawOnly)
          => RejectedBeforeEffects

\* a Withdraw accepted with the state byte WithdrawOnly
C1_Witness ==
    /\ last.op = "Withdraw"
    /\ last.res = "Ok"
    /\ last.pre.config.state = WithdrawOnly
    /\ vault_x < last.pre.b.vault_x

\* C2: in Deposit, Withdraw and Swap the decoder rejects a payload exactly when
\* the clock is greater than its expiration: expiration = clock is accepted,
\* clock = expiration + 1 is rejected, and the comparison is made once, with the
\* clock read by the decoder, before the handler's checks.
C2_ExpirationBoundary ==
    last.op \in PoolOps =>
        /\ last.at = "expiration" =>
              (/\ last.args.clock > last.args.expiration
               /\ last.res = "InvalidInstructionData"
               /\ RejectedBeforeEffects)
        /\ Passed(last, "expiration") => last.args.clock <= last.args.expiration

\* a Deposit accepted with expiration equal to the clock, after the clock moved
C2_Witness ==
    /\ last.op = "Deposit"
    /\ last.res = "Ok"
    /\ last.args.expiration = last.args.clock
    /\ last.args.clock > 0

\* the balances the latest Deposit left: x and y moved from the caller to the
\* reserves, amount LP units issued to the caller
DepositMoved(x, y, amount) ==
    LET b == last.pre.b
        m == last.args.mint_lp
    IN  /\ vault_x = b.vault_x + x
        /\ vault_y = b.vault_y + y
        /\ user_x = b.user_x - x
        /\ user_y = b.user_y - y
        /\ supply = [b.supply EXCEPT ![m] = @ + amount]
        /\ user_lp = [b.user_lp EXCEPT ![m] = @ + amount]

\* the balances the latest Withdraw left
WithdrawMoved(x, y, amount) ==
    LET b == last.pre.b
        m == last.args.mint_lp
    IN  /\ vault_x = b.vault_x - x
        /\ vault_y = b.vault_y - y
        /\ user_x = b.user_x + x
        /\ user_y = b.user_y + y
        /\ supply = [b.supply EXCEPT ![m] = @ - amount]
        /\ user_lp = [b.user_lp EXCEPT ![m] = @ - amount]

\* the balances the latest Swap left
SwapMoved(is_x, deposit, withdraw) ==
    LET b == last.pre.b
    IN  /\ vault_x = IF is_x THEN b.vault_x + deposit ELSE b.vault_x - withdraw
        /\ vault_y = IF is_x THEN b.vault_y - withdraw ELSE b.vault_y + deposit
        /\ user_x = IF is_x THEN b.user_x - deposit ELSE b.user_x + withdraw
        /\ user_y = IF is_x THEN b.user_y + withdraw ELSE b.user_y - deposit
        /\ supply = b.supply
        /\ user_lp = b.user_lp

\* the latest invocation is a Deposit whose quantities were computed on an
\* empty pool: LP supply 0 and both reserves 0
BootstrapCase ==
    /\ last.op = "Deposit"
    /\ Passed(last, "deserialize")
    /\ last.pre.b.supply[last.args.mint_lp] = 0
    /\ last.pre.b.vault_x = 0
    /\ last.pre.b.vault_y = 0

\* C3: a Deposit(amount, max_x, max_y) on an empty, Initialized pool is never
\* stopped by the curve engine or by the slippage check; when it is accepted the
\* X reserve grows by exactly max_x, the Y reserve by exactly max_y and amount
\* LP units are issued to the caller.
C3_BootstrapDeterminism ==
    BootstrapCase =>
        /\ last.pre.config.state = Initialized
        /\ last.at \notin {"curve", "bounds"}
        /\ last.out = [x |-> last.args.max_x, y |-> last.args.max_y]
        /\ last.res = "Ok" => DepositMoved(last.args.max_x, last.args.max_y, last.args.amount)

\* an accepted bootstrap deposit with different bounds for X and Y
C3_Witness ==
    /\ BootstrapCase
    /\ last.res = "Ok"
    /\ last.args.max_x = 1
    /\ last.args.max_y = 0
    /\ vault_x = 1
    /\ vault_y = 0
    /\ supply[last.args.mint_lp] = last.args.amount

\* C4: a Deposit on a pool that is not empty is accepted only when the
\* quantities (x, y) the curve returned satisfy x <= max_x and y <= max_y; with
\* x > max_x or y > max_y (max_x = x - 1, max_y = y - 1 included) it is rejected
\* with InvalidArgument before any transfer, and an accepted one moves x and y.
C4_DepositSlippageCeiling ==
    (last.op = "Deposit" /\ Passed(last, "curve") /\ ~BootstrapCase) =>
        /\ last.res = "Ok" =>
              (/\ last.out.x <= last.args.max_x
               /\ last.out.y <= last.args.max_y
               /\ DepositMoved(last.out.x, last.out.y, last.args.amount))
        /\ (last.out.x > last.args.max_x \/ last.out.y > last.args.max_y) =>
              (/\ last.at = "bounds"
               /\ last.res = "InvalidArgument"
               /\ RejectedBeforeEffects)

\* a Deposit on a funded pool rejected with max_x = x - 1 while y <= max_y
C4_Witness ==
    /\ last.op = "Deposit"
    /\ ~BootstrapCase
    /\ last.at = "bounds"
    /\ last.args.max_x = last.out.x - 1
    /\ last.out.y <= last.args.max_y

\* the latest invocation is a Withdraw of the whole LP supply
FullDrainCase ==
    /\ last.op = "Withdraw"
    /\ Passed(last, "deserialize")
    /\ last.args.amount = last.pre.b.supply[last.args.mint_lp]

\* C5: a Withdraw whose amount equals the LP supply computes the payout as the
\* two reserve balances, whatever the curve would return; when it is accepted
\* the caller receives exactly both reserves, which become 0, and the LP supply
\* becomes 0.
C5_FullDrainExactness ==
    FullDrainCase =>
        /\ last.at # "curve"
        /\ last.out = [x |-> last.pre.b.vault_x, y |-> last.pre.b.vault_y]
        /\ last.res = "Ok" =>
              (/\ WithdrawMoved(last.pre.b.vault_x, last.pre.b.vault_y, last.args.amount)
               /\ vault_x = 0
               /\ vault_y = 0
               /\ supply[last.args.mint_lp] = 0)

\* an accepted full drain that pays out more X than any quantity the curve returns
C5_Witness ==
    /\ FullDrainCase
    /\ last.res = "Ok"
    /\ last.pre.b.vault_x = 2
    /\ user_x = last.pre.b.user_x + 2
    /\ vault_x = 0

\* C6: a Withdraw, on the curve path and on the full-drain path, is accepted
\* only when the payout (x, y) satisfies x >= min_x and y >= min_y; with
\* x < min_x or y < min_y it is rejected with InvalidArgument before any
\* transfer or burn.
C6_WithdrawSlippageFloor ==
    (last.op = "Withdraw" /\ Passed(last, "curve")) =>
        /\ last.res = "Ok" =>
              (/\ last.out.x >= last.args.min_x
               /\ last.out.y >= last.args.min_y
               /\ WithdrawMoved(last.out.x, last.out.y, last.args.amount))
        /\ (last.out.x < last.args.min_x \/ last.out.y < last.args.min_y) =>
              (/\ last.at = "bounds"
               /\ last.res = "InvalidArgument"
               /\ RejectedBeforeEffects)

\* a Withdraw on the curve path rejected because y is under min_y while x >= min_x
C6_Witness ==
    /\ last.op = "Withdraw"
    /\ ~FullDrainCase
    /\ last.at = "bounds"
    /\ last.out.y < last.args.min_y
    /\ last.out.x >= last.args.min_x

\* the contract of the engine's swap (section 4.5 of the specification), on the
\* arguments c = (x, y, l, fee) the curve was built with: the withdraw quantity
\* leaves the output reserve non-negative and
\* (rx + deposit * (1 - fee / 10000)) * (ry - withdraw) >= rx * ry
SwapContract(c, is_x, deposit, withdraw) ==
    LET rx == IF is_x THEN c[1] ELSE c[2]
        ry == IF is_x THEN c[2] ELSE c[1]
    IN  /\ withdraw <= ry
        /\ (rx * FeeLimit + deposit * (FeeLimit - c[4])) * (ry - withdraw)
              >= rx * ry * FeeLimit

C8_SwapNoPartialFill ==
    last.op = "Swap" =>
        /\ last.at = "curve" => (last.res = "Custom(1)" /\ RejectedBeforeEffects)
        /\ (Passed(last, "curve") /\ (last.out.x = 0 \/ last.out.y = 0)) =>
              (/\ last.at = "bounds"
               /\ last.res = "InvalidArgument"
               /\ RejectedBeforeEffects)
        /\ last.res # "Ok" => NothingWritten
        /\ last.res = "Ok" =>
              (/\ last.out.x > 0
               /\ last.out.y > 0
               /\ last.out.y >= last.args.min
               /\ SwapMoved(last.args.is_x, last.out.x, last.out.y))

\* a Swap rejected because the curve returned a deposit > 0 and a withdraw of 0
C8_Witness ==
    /\ last.op = "Swap"
    /\ last.at = "bounds"
    /\ last.out.x > 0
    /\ last.out.y = 0
    /\ last.pre.b.vault_x > 0

\* C9: seed and config_bump are write-once: when set_seed (set_config_bump) has
\* succeeded on a record, the next set_seed (set_config_bump) on it is rejected
\* and leaves the field as the first call set it, whatever the two values are.
C9_WriteOnce ==
    [][/\ (last.op = "set_seed" /\ last.res = "Ok" /\ last'.op = "set_seed")
            => (last'.res # "Ok" /\ config'.seed = config.seed)
       /\ (last.op = "set_config_bump" /\ last.res = "Ok"
           /\ last'.op = "set_config_bump")
            => (last'.res # "Ok" /\ config'.config_bump = config.config_bump)]_vars

\* C10: after every successful operation the configuration record has
\* mint_x # mint_y, fee < 10000 and a state in 0..3.
C10_ConfigInvariant ==
    (config_exists /\ last.op # "none" /\ last.res = "Ok") =>
        /\ config.mint_x # config.mint_y
        /\ fee_of(config) < FeeLimit
        /\ config.state \in {Uninitialized, Initialized, Disabled, WithdrawOnly}

\* the latest invocation is a Deposit, Withdraw or Swap that reached the
\* verification of the reserve addresses
ReachedReserves == last.op \in PoolOps /\ Passed(last, "state_guard")

\* the reserve addresses the latest invocation re-derived
DerivedX == find_program_address(last.args.token_program, last.pre.config.mint_x)
DerivedY == find_program_address(last.args.token_program, last.pre.config.mint_y)

\* C11: Deposit, Withdraw and Swap reject, before any transfer, mint or burn, an
\* invocation whose reserve X address differs from the address re-derived for
\* mint_x or whose reserve Y address differs from the one re-derived for
\* mint_y; reserve X is checked first, so with both wrong the invocation stops
\* at reserve X.
C11_ReserveSubstitution ==
    ReachedReserves =>
        /\ last.args.vault_x_key # DerivedX => last.at = "vault_x"
        /\ (last.args.vault_x_key = DerivedX /\ last.args.vault_y_key # DerivedY)
              => last.at = "vault_y"
        /\ last.at = "vault_x" => last.args.vault_x_key # DerivedX
        /\ last.at = "vault_y" => last.args.vault_y_key # DerivedY
        /\ last.at \in {"vault_x", "vault_y"}
              => (last.res = "InvalidAccountData" /\ RejectedBeforeEffects)

\* a Withdraw given the two reserves of the pool in each other's position,
\* stopped at reserve X
C11_Witness ==
    /\ last.op = "Withdraw"
    /\ last.at = "vault_x"
    /\ last.args.vault_x_key = ReserveY
    /\ last.args.vault_y_key = ReserveX
    /\ last.pre.b.vault_x > 0

\* invocation l is a Deposit, Withdraw or Swap whose two reserve addresses
\* passed the verification
Verified(l) == l.op \in PoolOps /\ Passed(l, "vault_y")

\* C12: the reserve addresses that pass verification are a function of the
\* configuration record alone: two invocations in a row on the same record
\* whose reserve addresses both pass verification carry the same reserve X
\* address and the same reserve Y address, whatever else the caller supplied
\* (the balance-service account in the last position included).
C12_ReserveAddressOfPoolOnly ==
    [][(/\ Verified(last)
        /\ Verified(last')
        /\ last'.pre.config = last.pre.config)
          => (/\ last'.args.vault_x_key = last.args.vault_x_key
              /\ last'.args.vault_y_key = last.args.vault_y_key)]_vars

\* C13: the all-zero authority means "no authority" and can be stored:
\* set_authority with the all-zero key succeeds, set_inner with the all-zero
\* authority and otherwise valid arguments succeeds on a fresh record, and
\* has_authority then reports none; has_authority returns Some(authority)
\* exactly when the stored authority is not all-zero.
C13_ImmutablePoolSentinel ==
    /\ (last.op = "set_authority" /\ last.args[1] = PubkeyDefault)
          => (last.res = "Ok" /\ has_authority(config)[1] = "None")
    /\ (/\ last.op = "set_inner"
        /\ last.pre.config = ZeroConfig
        /\ last.args.authority = PubkeyDefault
        /\ last.args.seed # 0
        /\ last.args.mint_x # last.args.mint_y
        /\ last.args.fee < FeeLimit)
          => (last.res = "Ok" /\ has_authority(config)[1] = "None")
    /\ config_exists
          => (has_authority(config)[1] = "Some" <=> config.authority # PubkeyDefault)

\* C14: set_state(v) succeeds and stores v for every v in
\* {Uninitialized, Initialized, Disabled, WithdrawOnly}, and is rejected,
\* leaving the state unchanged, for every v > 3.
C14_StateEnumeration ==
    last.op = "set_state"
        => IF last.args[1] \in {Uninitialized, Initialized, Disabled, WithdrawOnly}
           THEN last.res = "Ok" /\ config.state = last.args[1]
           ELSE last.res # "Ok" /\ config.state = last.pre.config.state

\* C15: set_inner is all-or-nothing: on Ok every field holds the new value
\* with state = Initialized, and on an error every field of the record is as
\* it was before the call.
C15_SetInnerAtomic ==
    last.op = "set_inner"
        => IF last.res = "Ok"
           THEN config = [state |-> Initialized,
                          seed |-> to_le_bytes(last.args.seed, 8),
                          authority |-> last.args.authority,
                          mint_x |-> last.args.mint_x,
                          mint_y |-> last.args.mint_y,
                          fee |-> to_le_bytes(last.args.fee, 2),
                          config_bump |-> last.args.config_bump]
           ELSE config = last.pre.config

\* C16: a successful Initialize leaves the configuration record with
\* state = Initialized and seed, fee, mint_x, mint_y, config_bump and
\* authority equal to the decoded payload, and a Deposit issued next that
\* loads the record is not stopped by the state guard.
C16_InitializeWritesConfig ==
    [][/\ (~config_exists /\ last'.op = "Initialize" /\ last'.res = "Ok")
            => config' = [state |-> Initialized,
                          seed |-> to_le_bytes(last'.args.data.seed, 8),
                          authority |-> last'.args.data.authority,
                          mint_x |-> last'.args.data.mint_x,
                          mint_y |-> last'.args.data.mint_y,
                          fee |-> to_le_bytes(last'.args.data.fee, 2),
                          config_bump |-> last'.args.data.config_bump]
       /\ (/\ last.op = "Initialize" /\ last.res = "Ok"
           /\ last'.op = "Deposit" /\ Passed(last', "config_load"))
            => Passed(last', "state_guard")]_vars

\* the payload length each pool operation's decoder accepts
DataLenOf(op) ==
    CASE op = "Deposit" -> DepositDataLen
      [] op = "Withdraw" -> WithdrawDataLen
      [] op = "Swap" -> SwapDataLen

\* C17: the Initialize decoder accepts exactly the lengths 76 and 108, and a
\* 76-byte payload decodes to the seed, fee, mint_x, mint_y, config_bump and
\* lp_bump it carries with an all-zero authority; the Deposit and Withdraw
\* decoders accept exactly 32 bytes, the Swap decoder exactly 25, and each
\* rejects amount = 0.
C17_PayloadShape ==
    /\ (last.op = "Initialize" /\ Passed(last, "accounts"))
          => /\ last.at = "data_len"
                   <=> last.args.len \notin {InitializeDataLen,
                                             InitializeDataLenWithAuthority}
             /\ Passed(last, "data_len")
                   => /\ \A f \in {"seed", "fee", "mint_x", "mint_y", "config_bump",
                                   "lp_bump"} :
                             last.args.data[f] = last.args.payload[f]
                      /\ last.args.data.authority =
                             IF last.args.len = InitializeDataLen
                             THEN PubkeyDefault
                             ELSE last.args.payload.authority
    /\ (last.op \in PoolOps /\ Passed(last, "accounts"))
          => /\ last.at = "data_len" <=> last.args.len # DataLenOf(last.op)
             /\ Passed(last, "data_len")
                   => (last.at = "amount" <=> last.args.amount = 0)

\* the checks a handler makes itself, as opposed to a failed cross-program call
OwnChecks ==
    {"accounts", "data_len", "amount", "expiration", "config_load", "state_guard",
     "vault_x", "vault_y", "curve", "bounds"}

\* C18: a Deposit, Withdraw or Swap rejected by one of the handler's own
\* checks was rejected before any transfer, mint or burn was invoked, and
\* reserves, caller balances, LP supply and the configuration record are as
\* they were before the invocation.
C18_FailureAtomicity ==
    (last.op \in PoolOps /\ last.at \in OwnChecks)
        => /\ last.res # "Ok"
           /\ last.cpis = <<>>
           /\ NothingWritten

\* a deposit into a funded pool stopped by its ceilings, the last check made
C18_Witness ==
    /\ last.op = "Deposit"
    /\ last.at = "bounds"
    /\ last.pre.b.vault_x > 0
    /\ last.out.x > last.args.max_x

\* the cause of a rejection, by the check that raised it
CauseOf(at) ==
    CASE at = "data_len" -> "length"
      [] at = "expiration" -> "expired"
      [] at = "state_guard" -> "state"
      [] at \in {"vault_x", "vault_y"} -> "reserve"
      [] at = "curve" -> "curve"
      [] at = "bounds" -> "slippage"
      [] OTHER -> "other"

\* the causes the error code is to tell apart
Opposed == {{"length", "expired"}, {"state", "reserve"}, {"curve", "slippage"}}

\* C19: the error code of a rejected Deposit, Withdraw or Swap identifies its
\* cause: a wrong payload length and an expired payload, a state-guard
\* violation and a reserve address mismatch, a curve error and a slippage
\* violation are never reported with the same code.
C19_ErrorTaxonomy ==
    [][(/\ last.op \in PoolOps /\ last.res # "Ok"
        /\ last'.op \in PoolOps /\ last'.res # "Ok"
        /\ {CauseOf(last.at), CauseOf(last'.at)} \in Opposed)
          => last'.res # last.res]_vars

\* the number of accounts each instruction destructures
AccountsLenOf(op) ==
    CASE op = "Initialize" -> InitializeAccountsLen
      [] op = "Deposit" -> DepositAccountsLen
      [] op = "Withdraw" -> WithdrawAccountsLen
      [] op = "Swap" -> SwapAccountsLen

\* the latest invocation stopped at check `at` exactly when it got that far
\* and the check's condition was violated
StopsAt(at, before, violated) ==
    /\ last.at = at => violated
    /\ (Passed(last, before) /\ violated) => last.at = at

\* C20: the checks are made in the order account count (Initialize 5, Deposit
\* and Withdraw 9, Swap 7), payload length, amount, expiration, configuration
\* record, state guard, reserve X, reserve Y, curve, slippage or zero
\* quantity: an invocation stops at the earliest check it violates, and with
\* a wrong account count it stops there whatever the payload.
C20_ValidationPrecedence ==
    /\ last.op \in PoolOps \cup {"Initialize"}
          => /\ last.at = "accounts" <=> last.args.n # AccountsLenOf(last.op)
             /\ last.at = "accounts" => last.res = "NotEnoughAccountKeys"
    /\ last.op = "Initialize"
          => StopsAt("data_len", "accounts",
                     last.args.len \notin {InitializeDataLen,
                                           InitializeDataLenWithAuthority})
    /\ last.op \in PoolOps
          => /\ StopsAt("data_len", "accounts", last.args.len # DataLenOf(last.op))
             /\ StopsAt("amount", "data_len", last.args.amount = 0)
             /\ StopsAt("expiration", "amount", last.args.clock > last.args.expiration)
             /\ StopsAt("config_load", "expiration",
                        ~(last.args.config_account = "pool" /\ last.pre.config_exists))
             /\ StopsAt("state_guard", "config_load",
                        IF last.op = "Withdraw"
                        THEN last.pre.config.state = Disabled
                        ELSE last.pre.config.state # Initialized)
             /\ StopsAt("vault_x", "state_guard", last.args.vault_x_key # DerivedX)
             /\ StopsAt("vault_y", "vault_x", last.args.vault_y_key # DerivedY)
             /\ last.at = "curve" => last.out = NoOut
             /\ StopsAt("bounds", "curve",
                        CASE last.op = "Deposit" ->
                                 ~(/\ last.out.x <= last.args.max_x
                                   /\ last.out.y <= last.args.max_y)
                          [] last.op = "Withdraw" ->
                                 ~(/\ last.out.x >= last.args.min_x
                                   /\ last.out.y >= last.args.min_y)
                          [] last.op = "Swap" -> last.out.x = 0 \/ last.out.y = 0)

\* a Deposit with too few accounts and a payload of the wrong length, and so
\* with two violations, is reported as the account count
C20_Witness ==
    /\ last.op = "Deposit"
    /\ last.at = "accounts"
    /\ last.args.n # DepositAccountsLen
    /\ last.args.len # DepositDataLen

\* C21: an accepted Deposit makes exactly three calls in this order: a
\* transfer of x from the caller's X balance to reserve X and a transfer of y
\* from the caller's Y balance to reserve Y, both authorized by the caller,
\* then a mint of exactly amount LP tokens to the caller signed for the
\* configuration address; the mint is invoked only after both transfers
\* succeeded.
C21_DepositEffectOrder ==
    last.op = "Deposit" =>
        /\ last.at = "done"
              => /\ last.cpis =
                        <<[call |-> "Transfer", from |-> "user_x", to |-> "vault_x",
                           authority |-> "user", amount |-> last.out.x],
                          [call |-> "Transfer", from |-> "user_y", to |-> "vault_y",
                           authority |-> "user", amount |-> last.out.y],
                          [call |-> "MintTo", from |-> last.args.mint_lp, to |-> "user_lp",
                           authority |-> "config", amount |-> last.args.amount]>>
                 /\ DepositMoved(last.out.x, last.out.y, last.args.amount)
        /\ \A i \in 1..Len(last.cpis) :
              last.cpis[i].call = "MintTo"
                  => /\ i = 3
                     /\ last.cpis[1].call = "Transfer" /\ last.cpis[2].call = "Transfer"
                     /\ last.pre.b.user_x >= last.out.x
                     /\ last.pre.b.user_y >= last.out.y

\* an accepted deposit into a funded pool that moved both assets
C21_Witness ==
    /\ last.op = "Deposit"
    /\ last.at = "done"
    /\ last.out.x > 0
    /\ last.out.y > 0
    /\ last.pre.b.vault_x > 0

C23_SwapDirectionAndFrame ==
    last.op = "Swap" =>
        LET in == IF last.args.is_x THEN "x" ELSE "y"
            other == IF last.args.is_x THEN "y" ELSE "x"
            inbound == [call |-> "Transfer", from |-> "user_" \o in, to |-> "vault_" \o in,
                        authority |-> "user", amount |-> last.out.x]
            outbound == [call |-> "Transfer", from |-> "vault_" \o other,
                         to |-> "user_" \o other,
                         authority |-> "config", amount |-> last.out.y]
        IN  /\ last.at = "done"
                  => /\ last.cpis = <<inbound, outbound>>
                     /\ SwapMoved(last.args.is_x, last.out.x, last.out.y)
                     /\ supply = last.pre.b.supply
                     /\ user_lp = last.pre.b.user_lp
                     /\ config = last.pre.config
            /\ last.cpis # <<>> => last.cpis[1] = inbound
            /\ Len(last.cpis) > 1
                  => /\ last.cpis = <<inbound, outbound>>
                     /\ last.pre.b["user_" \o in] >= last.out.x

\* an accepted Swap of asset Y for asset X
C23_Witness ==
    /\ last.op = "Swap"
    /\ last.at = "done"
    /\ ~last.args.is_x
    /\ last.out.x > 0
    /\ last.out.y > 0
    /\ vault_y = last.pre.b.vault_y + last.out.x

\* the latest invocation is a Deposit whose quantities were computed on a pool
\* with no LP tokens issued and a reserve that is not empty
DonatedCase ==
    /\ last.op = "Deposit"
    /\ Passed(last, "deserialize")
    /\ last.pre.b.supply[last.args.mint_lp] = 0
    /\ (last.pre.b.vault_x > 0 \/ last.pre.b.vault_y > 0)

\* C24: a Deposit takes its quantities from the ceilings only when LP supply,
\* reserve X and reserve Y are all 0; with LP supply 0 and a reserve that is
\* not empty it asks the curve engine, which fails, and the Deposit is
\* rejected with no balance moved and no LP token minted.
C24_BootstrapPathCondition ==
    /\ DonatedCase
          => /\ last.at = "curve"
             /\ last.res = "InvalidArgument"
             /\ RejectedBeforeEffects
    /\ (/\ last.op = "Deposit"
        /\ Passed(last, "curve")
        /\ last.pre.b.supply[last.args.mint_lp] = 0)
          => /\ last.pre.b.vault_x = 0
             /\ last.pre.b.vault_y = 0
             /\ last.out = [x |-> last.args.max_x, y |-> last.args.max_y]

\* a Deposit with generous ceilings into a pool with no LP tokens whose
\* reserve X holds tokens
C24_Witness ==
    /\ DonatedCase
    /\ last.pre.b.vault_x > 0
    /\ last.pre.b.vault_y = 0
    /\ last.args.max_x = MaxAmount
    /\ last.args.max_y = MaxAmount

\* C25: a Deposit or Withdraw whose LP-issuance account is not the pool's own
\* is rejected and writes nothing, so the reserves cannot be emptied by a
\* Withdraw of the whole supply of another issuance account.
C25_LpIssuanceSubstitution ==
    (last.op \in {"Deposit", "Withdraw"} /\ last.args.mint_lp = "foreign")
        => /\ last.res # "Ok"
           /\ NothingWritten

\* what the invocation recorded in l adds to the pool's LP supply according to
\* the accounting: amount for an accepted Deposit, -amount for an accepted
\* Withdraw, nothing otherwise
SupplyDelta(l) ==
    IF l.res # "Ok" THEN 0
    ELSE IF l.op = "Deposit" THEN l.args.amount
    ELSE IF l.op = "Withdraw" THEN 0 - l.args.amount
    ELSE 0

\* C26: the LP supply of the pool changes only by accepted Deposits (+amount
\* each) and accepted Withdraws (-amount each), so it is the sum of the former
\* minus the sum of the latter; no other operation changes it and it is never
\* negative.
C26_LpSupplyAccounting ==
    [][/\ supply'["pool"] =
              supply["pool"] + (IF last' = last THEN 0 ELSE SupplyDelta(last'))
       /\ supply'["pool"] >= 0]_vars

\* C27: starting from an empty pool, in every state the committed Deposits,
\* Withdraws and Swaps reach, an LP supply of 0 comes with both reserves 0.
C27_EmptyPoolInvariant ==
    supply["pool"] = 0 => (vault_x = 0 /\ vault_y = 0)

\* C28: no accepted Deposit mints a positive amount of LP tokens while it
\* transfers 0 of asset X and 0 of asset Y into the reserves.
C28_NoFreeLpTokens ==
    (last.op = "Deposit" /\ last.at = "done" /\ last.args.amount > 0)
        => (last.out.x > 0 \/ last.out.y > 0)

====
